---- MODULE Spec2Model ----
(***************************************************************************)
(* Pool-connection strategy core: FailoverStrategy                          *)
(* (src/base/net/stratum/strategies/FailoverStrategy.cpp).                  *)
(*                                                                         *)
(* The strategy owns nPools clients with id = index.  Every public method  *)
(* and every client callback is one action; the event loop is single      *)
(* threaded, so a handler runs to completion.  The calls a handler makes  *)
(* on its clients and the callbacks it emits to its listener are recorded *)
(* (in order) in calls and emits, which hold the trace of the LAST handler.*)
(*                                                                         *)
(* DonateStrategy (src/net/strategies/DonateStrategy.cpp) is the second    *)
(* machine, specified by SpecDonate; it shares calls, emits, last and      *)
(* stops with the first one, and each specification leaves the other      *)
(* machine's fields at their initial values.                              *)
(***************************************************************************)
EXTENDS Integers, Sequences, FiniteSets, TLC

\* ---- bounds ------------------------------------------------------------
MaxPools    == 3      \* pools.size() ranges over 1..MaxPools
MaxRetries  == 1      \* retries ranges over 0..MaxRetries
MaxFailures == 1      \* failures of a close ranges over -1..MaxFailures
MaxSeq      == 2      \* a client's submit() returns a sequence number in 1..MaxSeq

VARIABLES
    nPools,                 \* m_pools.size(), fixed at construction
    m_retries,              \* fixed at construction
    m_index,                \* current candidate
    m_active,               \* id of the authorized client, -1 if none
    m_pendingConnect,       \* deferred connect requested
    m_pendingIndex,         \* pool the deferred connect targets
    m_minAcceptableIndex,   \* zero-retry mode: lowest id still honoured
    cstate,                 \* per client: connection state
    calls,                  \* client methods called by the last handler
    emits,                  \* listener callbacks emitted by the last handler
    last,                   \* the last handler and its arguments
    scn,                    \* progress along the two-pool boundary scenario
    rt,                     \* progress along the connect/login/stop/connect round trip
    stops,                  \* consecutive stop() calls so far (saturates at 2)
    ret,                    \* value returned by the last handler (0: none)
    \* DonateStrategy
    m_state,                \* NEW, IDLE, CONNECT, ACTIVE, WAIT
    m_timer,                \* the single-shot timer: what it was started with
    m_proxy,                \* "null" or "live"
    zombie,                 \* a proxy scheduled by deleteLater(), not yet destroyed
    proxyDonate,            \* pools.proxyDonate: NONE or AUTO
    m_timestamp,            \* the WAIT deadline, measured from m_now
    nested,                 \* the nested strategy: stopped, connecting, active
    fault,                  \* the process died in undefined behaviour
    pscn,                   \* progress along the proxy-fallback scenario
    heard,                  \* the listener's view of its onActive/onPause callbacks
    \* Verthash (the dataset manager) and its callers
    m_info,                 \* verthash_info_t: data, dataSize, bitmask, fileName
    m_initialized,          \* the initialized flag
    m_mutex,                \* 0, or the thread that holds the mutex
    files,                  \* the paths verthash_info_init can load
    heap,                   \* per region: unused, filling, full, freed
    th,                     \* per thread: position, call, arguments, locals, result
    ncalls,                 \* calls started so far
    loads                   \* verthash_info_init invocations so far

strat == <<m_index, m_active, m_pendingConnect, m_pendingIndex, m_minAcceptableIndex>>
fvars == <<nPools, m_retries, m_index, m_active, m_pendingConnect, m_pendingIndex,
           m_minAcceptableIndex, cstate, scn, rt, ret>>
dvars == <<m_state, m_timer, m_proxy, zombie, proxyDonate, m_timestamp, nested, fault, pscn,
           heard>>
hvars == <<m_info, m_initialized, m_mutex, files, heap, th, ncalls, loads>>
vars  == <<nPools, m_retries, m_index, m_active, m_pendingConnect, m_pendingIndex,
           m_minAcceptableIndex, cstate, calls, emits, last, scn, rt, stops, ret,
           m_state, m_timer, m_proxy, zombie, proxyDonate, m_timestamp, nested, fault, pscn,
           heard,
           m_info, m_initialized, m_mutex, files, heap, th, ncalls, loads>>

Pools == 0 .. (nPools - 1)

\* ---- the client contract (IClient) -------------------------------------
Call(m, i) == [m |-> m, c |-> i]

\* connect() leaves the client connecting, disconnect() leaves it unconnected.
ClientAfter(m, old) ==
    IF m = "connect" THEN "connecting"
    ELSE IF m = "disconnect" THEN "unconnected"
    ELSE old

RECURSIVE ApplyCalls(_, _)
ApplyCalls(cs, q) ==
    IF q = <<>> THEN cs
    ELSE ApplyCalls([cs EXCEPT ![Head(q).c] = ClientAfter(Head(q).m, cs[Head(q).c])], Tail(q))

\* what the client itself becomes when it reports a close: an explicit
\* disconnect (-1) stays down, any other close arms the reconnect timer.
ClientClosed(failures) == IF failures = -1 THEN "unconnected" ELSE "connecting"

NumCalls(m, i) == Cardinality({k \in DOMAIN calls : calls[k] = Call(m, i)})
NumEmits(e)    == Cardinality({k \in DOMAIN emits : emits[k] = e})

\* ---- listener callbacks -------------------------------------------------
Pause     == [ev |-> "onPause",  c |-> -1]
JobEv(c)  == [ev |-> "onJob",    c |-> c]
Active(c) == [ev |-> "onActive", c |-> c]

\* ---- helpers of the strategy --------------------------------------------
isActive == m_active >= 0

Event(op, c, f) == [op |-> op, c |-> c, failures |-> f]

\* the two-pool scenario: connect(), onClose(A, 0), tick(), onLoginSuccess(B)
ScnNext(op, c, f) ==
    IF scn = 0 /\ op = "connect" THEN 1
    ELSE IF scn = 1 /\ op = "onClose" /\ c = 0 /\ f = 0 THEN 2
    ELSE IF scn = 2 /\ op = "tick" THEN 3
    ELSE IF scn = 3 /\ op = "onLoginSuccess" /\ c = 1 THEN 4
    ELSE 5

\* the round trip: connect(), onLoginSuccess(c), stop(), connect(), and the
\* login success of the pool that connect() targeted
RtNext(op, c, f) ==
    IF rt = 0 /\ op = "connect" THEN 1
    ELSE IF rt = 1 /\ op = "onLoginSuccess" THEN 2
    ELSE IF rt = 2 /\ op = "stop" THEN 3
    ELSE IF rt = 3 /\ op = "connect" THEN 4
    ELSE IF rt = 4 /\ op = "onLoginSuccess" /\ c = m_index THEN 5
    ELSE 6

StopsNext(op) == IF op = "stop" THEN (IF stops >= 1 THEN 2 ELSE 1) ELSE 0

\* DonateStrategy before its constructor body ran (member initializers)
DonateDefaults ==
    /\ m_state = "NEW"
    /\ m_timer = [on |-> FALSE, kind |-> "none"]
    /\ m_proxy = "null"
    /\ zombie = FALSE
    /\ m_timestamp = 0
    /\ nested = "stopped"
    /\ fault = FALSE
    /\ pscn = 0
    /\ heard = "none"

\* ---- Verthash: bounds and initial state ----------------------------------
MaxThreads == 2     \* threads 1..MaxThreads call into the manager
MaxPaths   == 2     \* data file paths 1..MaxPaths (0: null / empty string)
MaxCalls   == 3     \* calls started in one behaviour

kDefaultDataFile == 1     \* "verthash.dat"

Threads == 1 .. MaxThreads
Paths   == 1 .. MaxPaths
Regions == 1 .. MaxCalls

\* memset(&m_info, 0, sizeof(m_info))
ZeroInfo == [data |-> 0, dataSize |-> 0, bitmask |-> 0, fileName |-> 0]

\* a thread outside every call
IdleThread == [pc |-> "idle", op |-> "none", path |-> 0, gen |-> 0, dat |-> 0,
               ret |-> "none", loaded |-> FALSE, old |-> 0, asked |-> 0,
               d |-> 0, s |-> 0, obs |-> "none", res |-> -1]

\* lines 25-28 and the member initializers of VerthashWrapper.h, lines 69-71
VerthashDefaults ==
    /\ m_info = ZeroInfo
    /\ m_initialized = FALSE
    /\ m_mutex = 0
    /\ heap = [r \in Regions |-> [st |-> "unused", path |-> 0]]
    /\ th = [t \in Threads |-> IdleThread]
    /\ ncalls = 0
    /\ loads = 0

\* the fields' initial values (member initializers of the class declaration)
FieldDefaults ==
    /\ m_index = 0
    /\ m_active = -1
    /\ m_pendingConnect = FALSE
    /\ m_pendingIndex = 0
    /\ m_minAcceptableIndex = 0

\* the constructor: one client per pool, retries as given
Init ==
    /\ nPools \in 1 .. MaxPools
    /\ m_retries \in 0 .. MaxRetries
    /\ FieldDefaults
    /\ cstate = [i \in Pools |-> "unconnected"]
    /\ calls = <<>>
    /\ emits = <<>>
    /\ last = Event("new", -1, 0)
    /\ scn = 0
    /\ rt = 0
    /\ stops = 0
    /\ ret = 0
    /\ proxyDonate = "NONE"
    /\ DonateDefaults
    /\ VerthashDefaults /\ files = {}

\* ---- connect() ----------------------------------------------------------
connect ==
    /\ calls' = <<Call("connect", m_index)>>
    /\ cstate' = ApplyCalls(cstate, calls')
    /\ emits' = <<>>
    /\ last' = Event("connect", -1, 0)
    /\ scn' = ScnNext("connect", -1, 0)
    /\ rt' = RtNext("connect", -1, 0)
    /\ stops' = StopsNext("connect")
    /\ ret' = 0
    /\ UNCHANGED <<dvars, hvars>>
    /\ UNCHANGED <<nPools, m_retries, strat>>

\* ---- submit(result) -----------------------------------------------------
\* mutant: the isActive() check is missing
submitRefused_never == FALSE

\* line 71: nothing is submitted while no pool is active
submitRefused == ~isActive

\* seq is the sequence number the active client's submit() returns
submit(seq) ==
    /\ last' = [op |-> "submit", c |-> -1, failures |-> 0, seq |-> seq]
    /\ IF submitRefused
         THEN /\ ret' = -1
              /\ calls' = <<>>
         ELSE /\ ret' = seq
              /\ calls' = <<Call("submit", m_active)>>
    /\ emits' = <<>>
    /\ scn' = 5
    /\ rt' = 6
    /\ stops' = 0
    /\ UNCHANGED <<nPools, m_retries, strat, cstate>>
    /\ UNCHANGED <<dvars, hvars>>

\* ---- stop() -------------------------------------------------------------
\* mutant: onPause is emitted only when a pool was active
stopEmits_onlyIfActive == IF isActive THEN <<Pause>> ELSE <<>>

\* line 120: onPause is emitted on every stop()
stopEmits == <<Pause>>

stop ==
    /\ calls' = [k \in 1 .. nPools |-> Call("disconnect", k - 1)]
    /\ cstate' = ApplyCalls(cstate, calls')
    /\ m_index' = 0
    /\ m_active' = -1
    /\ emits' = stopEmits
    /\ last' = Event("stop", -1, 0)
    /\ scn' = ScnNext("stop", -1, 0)
    /\ rt' = RtNext("stop", -1, 0)
    /\ stops' = StopsNext("stop")
    /\ ret' = 0
    /\ UNCHANGED <<dvars, hvars>>
    /\ UNCHANGED <<nPools, m_retries, m_pendingConnect, m_pendingIndex, m_minAcceptableIndex>>

\* ---- connectNext() ------------------------------------------------------
connectNextFires == m_pendingConnect /\ m_pendingIndex < nPools

\* ---- tick(now): every client ticks, then the pending connect is drained --
tick ==
    /\ IF connectNextFires
         THEN /\ m_pendingConnect' = FALSE
              /\ m_index' = m_pendingIndex
              /\ calls' = <<Call("connect", m_pendingIndex)>>
         ELSE /\ UNCHANGED <<m_pendingConnect, m_index>>
              /\ calls' = <<>>
    /\ cstate' = ApplyCalls(cstate, calls')
    /\ emits' = <<>>
    /\ last' = Event("tick", -1, 0)
    /\ scn' = ScnNext("tick", -1, 0)
    /\ rt' = RtNext("tick", -1, 0)
    /\ stops' = StopsNext("tick")
    /\ ret' = 0
    /\ UNCHANGED <<dvars, hvars>>
    /\ UNCHANGED <<nPools, m_retries, m_active, m_pendingIndex, m_minAcceptableIndex>>

\* ---- onClose(client, failures) ---------------------------------------
\* mutant: the explicit-disconnect check is missing
closeIgnored_never(failures) == FALSE

\* line 140: an explicit local disconnect is ignored
closeIgnored(failures) == failures = -1

\* mutant: the closing active pool is not cleared
activeAfterClose_kept(c) == m_active

\* lines 145-148: the active pool closed
activeAfterClose(c) == IF m_active = c THEN -1 ELSE m_active

\* line 157: zero-retry mode, close of a pool below the cascade
closeFromLowerPool(c) == c < m_minAcceptableIndex

\* mutant: the close connects the next pool in the same turn
silenceCalls_syncConnect(idx) ==
    [k \in 1 .. (idx + 2) |->
        IF k <= idx + 1 THEN Call("disconnect", k - 1)
        ELSE Call("connect", IF (nPools - idx) > 1 THEN idx + 1 ELSE 0)]

\* lines 168-170: silence every pool up to and including the current one
silenceCalls(idx) == [k \in 1 .. (idx + 1) |-> Call("disconnect", k - 1)]

\* mutant: no wrap-around after the last pool
nextPendingIndex_noWrap(idx) == idx + 1

\* lines 172-182: the pool scheduled next, wrapping after the last one
nextPendingIndex(idx) == IF (nPools - idx) > 1 THEN idx + 1 ELSE 0

\* mutant: the lower bound of the cascade does not wrap after the last pool
nextMinAcceptableIndex_noWrap(idx) == idx + 1

\* mutant: the floor is set to the closing pool instead of the next one
nextMinAcceptableIndex_offByOne(idx) == IF (nPools - idx) > 1 THEN idx ELSE 0

\* lines 176, 181: the floor below which pools are no longer honoured
nextMinAcceptableIndex(idx) == IF (nPools - idx) > 1 THEN idx + 1 ELSE 0

\* mutant: every pool retries in place, not only pool 0
retryInPlace_anyPool(failures) == failures < m_retries

\* line 188: pool 0 retries in place while failures < retries
retryInPlace(failures) == m_index = 0 /\ failures < m_retries

\* mutant: the check that a next pool exists is missing
canAdvance_noBound(c) == m_index = c

\* line 192: the close is on the current pool and a next pool exists
canAdvance(c) == m_index = c /\ (nPools - m_index) > 1

\* mutant: post-increment, m_pools[m_index++]->connect()
advanceTarget_postIncrement(idx) == idx

\* line 193: m_pools[++m_index]->connect()
advanceTarget(idx) == idx + 1

onClose(c, failures) ==
    LET cs0 == [cstate EXCEPT ![c] = ClientClosed(failures)] IN
    /\ last' = Event("onClose", c, failures)
    /\ scn' = ScnNext("onClose", c, failures)
    /\ rt' = RtNext("onClose", c, failures)
    /\ stops' = StopsNext("onClose")
    /\ ret' = 0
    /\ UNCHANGED <<dvars, hvars>>
    /\ IF closeIgnored(failures)
         THEN /\ calls' = <<>>
              /\ emits' = <<>>
              /\ UNCHANGED strat
         ELSE /\ m_active' = activeAfterClose(c)
              /\ emits' = IF m_active = c THEN <<Pause>> ELSE <<>>
              /\ IF m_retries = 0
                   THEN IF closeFromLowerPool(c)
                          THEN /\ calls' = <<Call("disconnect", c)>>
                               /\ UNCHANGED <<m_index, m_pendingConnect, m_pendingIndex,
                                              m_minAcceptableIndex>>
                          ELSE IF m_index = c
                                 THEN /\ calls' = silenceCalls(m_index)
                                      /\ m_pendingIndex' = nextPendingIndex(m_index)
                                      /\ m_minAcceptableIndex' = nextMinAcceptableIndex(m_index)
                                      /\ m_pendingConnect' = TRUE
                                      /\ UNCHANGED m_index
                                 ELSE /\ calls' = <<>>
                                      /\ UNCHANGED <<m_index, m_pendingConnect, m_pendingIndex,
                                                     m_minAcceptableIndex>>
                   ELSE IF retryInPlace(failures)
                          THEN /\ calls' = <<>>
                               /\ UNCHANGED <<m_index, m_pendingConnect, m_pendingIndex,
                                              m_minAcceptableIndex>>
                          ELSE IF canAdvance(c)
                                 THEN /\ m_index' = m_index + 1
                                      /\ calls' = <<Call("connect", advanceTarget(m_index))>>
                                      /\ UNCHANGED <<m_pendingConnect, m_pendingIndex,
                                                     m_minAcceptableIndex>>
                                 ELSE /\ calls' = <<>>
                                      /\ UNCHANGED <<m_index, m_pendingConnect, m_pendingIndex,
                                                     m_minAcceptableIndex>>
    /\ cstate' = ApplyCalls(cs0, calls')
    /\ UNCHANGED <<nPools, m_retries>>

\* ---- onLoginSuccess(client) ---------------------------------------------
\* mutant: the lower-pool guard is missing
loginRejected_never(c) == FALSE

\* mutant: the lower-pool guard compares with <=
loginRejected_offByOne(c) == m_retries = 0 /\ c <= m_minAcceptableIndex

\* line 234: zero-retry mode, login of a pool below the cascade
loginRejected(c) == m_retries = 0 /\ c < m_minAcceptableIndex

\* mutant: pool 0 has no priority over an active backup pool
newActive_firstWins(c) == IF ~isActive THEN c ELSE m_active

\* lines 228, 246-248: the pool that is active after this login
newActive(c) == IF c = 0 \/ ~isActive THEN c ELSE m_active

\* mutant: only pools below the active one are disconnected
disconnectOthers_lowerOnly(active) ==
    SelectSeq([k \in 1 .. nPools |-> Call("disconnect", k - 1)],
              LAMBDA x : x.c < active)

\* lines 252-256: disconnect every pool but the active one
disconnectOthers(active) ==
    SelectSeq([k \in 1 .. nPools |-> Call("disconnect", k - 1)],
              LAMBDA x : x.c # active)

onLoginSuccess(c) ==
    LET cs0    == [cstate EXCEPT ![c] = "authorized"]
        active == newActive(c)
    IN
    /\ last' = Event("onLoginSuccess", c, 0)
    /\ scn' = ScnNext("onLoginSuccess", c, 0)
    /\ rt' = RtNext("onLoginSuccess", c, 0)
    /\ stops' = StopsNext("onLoginSuccess")
    /\ ret' = 0
    /\ UNCHANGED <<dvars, hvars>>
    /\ IF loginRejected(c)
         THEN /\ calls' = <<Call("disconnect", c)>>
              /\ emits' = <<>>
              /\ UNCHANGED strat
         ELSE /\ m_pendingConnect' = FALSE
              /\ m_minAcceptableIndex' = 0
              /\ calls' = disconnectOthers(active)
              /\ IF active >= 0 /\ active # m_active
                   THEN /\ m_index' = active
                        /\ m_active' = active
                        /\ emits' = <<Active(c)>>
                   ELSE /\ UNCHANGED <<m_index, m_active>>
                        /\ emits' = <<>>
              /\ UNCHANGED m_pendingIndex
    /\ cstate' = ApplyCalls(cs0, calls')
    /\ UNCHANGED <<nPools, m_retries>>

\* ---- onJobReceived(client, job) ------------------------------------------
\* mutant: the job of the current candidate is forwarded
jobForwarded_fromIndex(c) == m_index = c

\* line 220: only the active client's job is forwarded
jobForwarded(c) == m_active = c

onJobReceived(c) ==
    /\ last' = Event("onJobReceived", c, 0)
    /\ scn' = ScnNext("onJobReceived", c, 0)
    /\ rt' = RtNext("onJobReceived", c, 0)
    /\ stops' = StopsNext("onJobReceived")
    /\ ret' = 0
    /\ calls' = <<>>
    /\ emits' = IF jobForwarded(c) THEN <<JobEv(c)>> ELSE <<>>
    /\ UNCHANGED <<nPools, m_retries, strat, cstate>>
    /\ UNCHANGED <<dvars, hvars>>

Next ==
    \/ connect
    \/ stop
    \/ tick
    \/ \E c \in Pools, failures \in -1 .. MaxFailures : onClose(c, failures)
    \/ \E c \in Pools : onLoginSuccess(c)
    \/ \E c \in Pools : onJobReceived(c)
    \/ \E seq \in 1 .. MaxSeq : submit(seq)

Spec == Init /\ [][Next]_vars

TypeOK ==
    /\ nPools \in 1 .. MaxPools
    /\ m_retries \in 0 .. MaxRetries
    /\ m_index \in Nat
    /\ m_active \in -1 .. (nPools - 1)
    /\ m_pendingConnect \in BOOLEAN
    /\ m_pendingIndex \in Nat
    /\ m_minAcceptableIndex \in Nat
    /\ cstate \in [Pools -> {"unconnected", "connecting", "authorized"}]

\* =========================================================================
\* DonateStrategy (src/net/strategies/DonateStrategy.cpp)
\* =========================================================================
MaxTickSeconds   == 2     \* a tick advances the clock by 1..MaxTickSeconds seconds
MaxProxyFailures == 3     \* failures of a proxy close ranges over -1..MaxProxyFailures

waitTime == 3000          \* line 361
retryMs  == 20000         \* line 389

States == {"NEW", "IDLE", "CONNECT", "ACTIVE", "WAIT"}

\* Timer::start(ms, 0) is single-shot; Timer::stop()
TimerOff          == [on |-> FALSE, kind |-> "none"]
IdleTimer(lo, hi) == [on |-> TRUE, kind |-> "idle", min10 |-> lo, max10 |-> hi]
RetryTimer        == [on |-> TRUE, kind |-> "retry", ms |-> retryMs]
DonateTimer       == [on |-> TRUE, kind |-> "donate"]

\* m_listener->onPause(this), line 416
DonatePause == [ev |-> "onPause", c |-> "none"]

\* isActive() of DonateStrategy
donateIsActive == m_state = "ACTIVE"

\* the nested strategy after its connect(): a stopped one starts connecting
NestedConnect(n) == IF n = "stopped" THEN "connecting" ELSE n

\* the effects of a handler, accumulated in program order
Eff == [st |-> m_state, timer |-> m_timer, proxy |-> m_proxy, zomb |-> zombie,
        nest |-> nested, ts |-> m_timestamp, calls |-> <<>>, emits |-> <<>>, bad |-> FALSE]

\* lines 275-298: a proxy is built only with proxyDonate = AUTO and an active
\* operator strategy that has the CONNECT extension (opOk)
createProxy(opOk) == IF proxyDonate = "NONE" \/ ~opOk THEN "null" ELSE "live"

\* lines 141-151: connect(); a proxy that m_proxy still pointed to is orphaned
donateConnect(e, opOk) ==
    LET p == createProxy(opOk) IN
    IF p = "live"
      THEN [e EXCEPT !.proxy = "live",
                     !.zomb  = e.zomb \/ e.proxy = "live",
                     !.calls = Append(e.calls, Call("connect", "proxy"))]
      ELSE [e EXCEPT !.proxy = "null",
                     !.zomb  = e.zomb \/ e.proxy = "live",
                     !.nest  = NestedConnect(e.nest),
                     !.calls = Append(e.calls, Call("connect", "strategy"))]

\* lines 392-398: the teardown at the end of the grace period
teardown(e) ==
    LET e1 == [e EXCEPT !.nest = "stopped",
                        !.calls = Append(e.calls, Call("stop", "strategy"))]
        e2 == IF e1.proxy = "live"
                THEN [e1 EXCEPT !.proxy = "null", !.zomb = TRUE,
                                !.calls = Append(e1.calls, Call("deleteLater", "proxy"))]
                ELSE e1
    IN [e2 EXCEPT !.timer = IdleTimer(8, 12),
                  !.calls = Append(e2.calls, Call("start", "timer"))]

\* lines 359-419: setState(state); opOk is read by connect() only
setState(e, state, opOk) ==
    IF e.st = state \/ state = "NEW"
      THEN [e EXCEPT !.bad = TRUE]
      ELSE LET prev == e.st
               e1   == [e EXCEPT !.st = state]
           IN CASE state = "IDLE" /\ prev = "NEW" ->
                       [e1 EXCEPT !.timer = IdleTimer(5, 15),
                                  !.calls = Append(e1.calls, Call("start", "timer"))]
                [] state = "IDLE" /\ prev = "CONNECT" ->
                       [e1 EXCEPT !.timer = RetryTimer,
                                  !.calls = Append(e1.calls, Call("start", "timer"))]
                [] state = "IDLE" /\ prev \notin {"NEW", "CONNECT"} -> teardown(e1)
                [] state = "CONNECT" -> donateConnect(e1, opOk)
                [] state = "ACTIVE" ->
                       [e1 EXCEPT !.timer = DonateTimer,
                                  !.calls = Append(e1.calls, Call("start", "timer"))]
                [] state = "WAIT" ->
                       [e1 EXCEPT !.ts = 0 + waitTime,
                                  !.emits = Append(e1.emits, DonatePause)]

\* the listener of lines 198, 253 and 416 after one more callback: the last of
\* onActive/onPause it received, or "broken" once two of a kind came in a row
\* or an onPause came first
HeardNext(h, ev) ==
    IF ev = "onActive" THEN (IF h \in {"none", "onPause"} THEN "onActive" ELSE "broken")
    ELSE IF ev = "onPause" THEN (IF h = "onActive" THEN "onPause" ELSE "broken")
    ELSE h

RECURSIVE HeardAfter(_, _)
HeardAfter(h, es) ==
    IF es = <<>> THEN h ELSE HeardAfter(HeardNext(h, Head(es).ev), Tail(es))

\* a handler's effects become the next state; a failed assertion (line 363)
\* aborts a build with assertions and is skipped by a build without
Commit(e) ==
    /\ m_state' = e.st
    /\ m_timer' = e.timer
    /\ m_proxy' = e.proxy
    /\ zombie' = e.zomb
    /\ nested' = e.nest
    /\ m_timestamp' = e.ts
    /\ calls' = e.calls
    /\ emits' = e.emits
    /\ heard' = HeardAfter(heard, e.emits)
    /\ fault' \in (IF e.bad THEN {TRUE, FALSE} ELSE {FALSE})
    /\ UNCHANGED <<proxyDonate, fvars, hvars>>

\* the proxy-fallback scenario: two onClose(2) in a row, the first on a live proxy
PscnNext(op, f) ==
    IF pscn = 0 /\ op = "proxy.onClose" /\ f = 2 /\ m_proxy = "live" THEN 1
    ELSE IF pscn = 0 THEN 0
    ELSE IF pscn = 1 /\ op = "proxy.onClose" /\ f = 2 THEN 2
    ELSE 3

Seen(op, f) ==
    /\ last' = Event(op, -1, f)
    /\ pscn' = PscnNext(op, f)
    /\ stops' = StopsNext(op)

Running == m_state # "NEW" /\ ~fault

\* lines 58-110: the constructor ends with setState(STATE_IDLE)
donateConstruct ==
    /\ m_state = "NEW" /\ ~fault
    /\ Commit(setState(Eff, "IDLE", FALSE))
    /\ Seen("construct", 0)

\* mutant: the timer repeats, it stays armed after it fired
timerAfterFiring_repeats == m_timer

\* the timer is started with repeat = 0: once it has fired it is off
timerAfterFiring == TimerOff

\* lines 269-272
donateOnTimer(opOk) ==
    /\ Running
    /\ m_timer.on
    /\ Commit(setState([Eff EXCEPT !.timer = timerAfterFiring],
                       IF donateIsActive THEN "WAIT" ELSE "CONNECT", opOk))
    /\ Seen("onTimer", 0)

\* lines 168-172
donateStop ==
    /\ Running
    /\ Commit([Eff EXCEPT !.timer = TimerOff, !.nest = "stopped",
                          !.calls = <<Call("stop", "timer"), Call("stop", "strategy")>>])
    /\ Seen("stop", 0)

\* line 185: the grace period is over
graceOver_atDeadline(ts) == ts <= 0
graceOver(ts) == ts < 0

\* lines 175-188: tick(now) with now = m_now + delta
donateTick(delta) ==
    LET ts1 == IF m_timestamp - delta < -1 THEN -1 ELSE m_timestamp - delta
        e0  == [Eff EXCEPT !.ts = ts1,
                           !.calls = IF m_proxy = "live"
                                       THEN <<Call("tick", "strategy"), Call("tick", "proxy")>>
                                       ELSE <<Call("tick", "strategy")>>]
    IN
    /\ Running
    /\ Commit(IF m_state = "WAIT" /\ graceOver(ts1) THEN setState(e0, "IDLE", FALSE) ELSE e0)
    /\ Seen("tick", delta)


\* mutant: the isActive() test of lines 193 and 248 is missing
becomeActive_unguarded(e, src) ==
    LET e1 == setState(e, "ACTIVE", FALSE)
    IN [e1 EXCEPT !.emits = Append(e1.emits, Active(src))]

\* lines 191-199 (nested strategy) and 246-254 (proxy): the handlers are the same
becomeActive(e, src) ==
    IF donateIsActive THEN e
    ELSE LET e1 == setState(e, "ACTIVE", FALSE)
         IN [e1 EXCEPT !.emits = Append(e1.emits, Active(src))]

\* the nested strategy reports an active pool: onActive(strategy, client)
donateOnActive ==
    /\ Running
    /\ nested # "stopped"
    /\ Commit(becomeActive([Eff EXCEPT !.nest = "active"], "strategy"))
    /\ Seen("strategy.onActive", 0)

\* lines 202-204: the nested strategy lost its active pool
donateOnPause ==
    /\ Running
    /\ nested = "active"
    /\ Commit([Eff EXCEPT !.nest = "connecting"])
    /\ Seen("strategy.onPause", 0)

\* a proxy client that can still call back: the one m_proxy points to, or one
\* handed to deleteLater() and not destroyed yet
ProxyAlive == m_proxy = "live" \/ zombie

\* lines 246-254
donateOnLoginSuccess ==
    /\ Running
    /\ ProxyAlive
    /\ Commit(becomeActive(Eff, "proxy"))
    /\ Seen("proxy.onLoginSuccess", 0)

\* line 209
proxyFallback(failures) == failures = 2 /\ proxyDonate = "AUTO"

\* lines 207-215; m_proxy is dereferenced unchecked, so with m_proxy null the
\* handler either crashes or carries on
donateOnClose(failures) ==
    /\ Running
    /\ ProxyAlive
    /\ Commit(IF ~proxyFallback(failures) THEN Eff
              ELSE IF m_proxy = "live"
                THEN [Eff EXCEPT !.proxy = "null", !.zomb = TRUE,
                                 !.nest = NestedConnect(nested),
                                 !.calls = <<Call("deleteLater", "proxy"),
                                             Call("connect", "strategy")>>]
                ELSE [Eff EXCEPT !.bad = TRUE,
                                 !.nest = NestedConnect(nested),
                                 !.calls = <<Call("deleteLater", "null"),
                                             Call("connect", "strategy")>>])
    /\ Seen("proxy.onClose", failures)

\* line 320
setJobForwards_whileWaiting == m_state \in {"ACTIVE", "WAIT"}
setJobForwards == donateIsActive

\* lines 318-323, reached from the job callbacks of the nested strategy and of the proxy
donateOnJob(src) ==
    /\ Running
    /\ IF src = "strategy" THEN nested = "active" ELSE ProxyAlive
    /\ Commit([Eff EXCEPT !.emits = IF setJobForwards THEN <<JobEv(src)>> ELSE <<>>])
    /\ Seen(IF src = "strategy" THEN "strategy.onJob" ELSE "proxy.onJob", 0)

\* the event loop destroys a client handed to deleteLater()
donateProxyDestroyed ==
    /\ Running
    /\ zombie
    /\ Commit([Eff EXCEPT !.zomb = FALSE])
    /\ Seen("proxy.destroyed", 0)

InitD ==
    /\ nPools = 2 /\ m_retries = 0
    /\ FieldDefaults
    /\ cstate = [i \in Pools |-> "unconnected"]
    /\ calls = <<>> /\ emits = <<>>
    /\ last = Event("new", -1, 0)
    /\ scn = 0 /\ rt = 0 /\ stops = 0 /\ ret = 0
    /\ proxyDonate \in {"NONE", "AUTO"}
    /\ DonateDefaults
    /\ VerthashDefaults /\ files = {}

NextD ==
    \/ donateConstruct
    \/ \E opOk \in BOOLEAN : donateOnTimer(opOk)
    \/ donateStop
    \/ \E k \in 1 .. MaxTickSeconds : donateTick(k * 1000)
    \/ donateOnActive
    \/ donateOnPause
    \/ donateOnLoginSuccess
    \/ \E f \in -1 .. MaxProxyFailures : donateOnClose(f)
    \/ \E src \in {"strategy", "proxy"} : donateOnJob(src)
    \/ donateProxyDestroyed

SpecDonate == InitD /\ [][NextD]_vars

\* the timer fires when armed and ticks keep arriving with increasing time
FairSpecDonate ==
    /\ SpecDonate
    /\ WF_vars(\E opOk \in BOOLEAN : donateOnTimer(opOk))
    /\ WF_vars(\E k \in 1 .. MaxTickSeconds : donateTick(k * 1000))

TypeOKD ==
    /\ m_state \in States
    /\ m_timer \in {TimerOff, IdleTimer(5, 15), IdleTimer(8, 12), RetryTimer, DonateTimer}
    /\ m_proxy \in {"null", "live"}
    /\ zombie \in BOOLEAN
    /\ nested \in {"stopped", "connecting", "active"}
    /\ m_timestamp \in -1 .. waitTime
    /\ fault \in BOOLEAN
    /\ heard \in {"none", "onActive", "onPause", "broken"}
    /\ proxyDonate = "NONE" => m_proxy = "null" /\ ~zombie

\* ---- properties ---------------------------------------------------------
InCallback == last.op \in {"onClose", "onLoginSuccess"}

ConnectsIn(q)    == {q[k].c : k \in {j \in DOMAIN q : q[j].m = "connect"}}
DisconnectsIn(q) == {q[k].c : k \in {j \in DOMAIN q : q[j].m = "disconnect"}}

\* C1 (as stated): while handling a callback issued by client c (onClose or
\* onLoginSuccess) the strategy calls no method, connect() or disconnect(),
\* on that same client c.
C1_NoCallOnCallbackClient ==
    InCallback => \A k \in DOMAIN calls : calls[k].c # last.c

\* C1 (amended): while handling a callback issued by client c the strategy
\* never calls connect() on c; the only method it may call on c is disconnect().
C1_NoConnectOnCallbackClient ==
    InCallback => /\ NumCalls("connect", last.c) = 0
                  /\ \A k \in DOMAIN calls : calls[k].c = last.c => calls[k].m = "disconnect"

\* a close handler that connected another pool, and one that disconnected its own
C1_Witness ==
    /\ last.op = "onClose"
    /\ m_retries > 0
    /\ calls = <<Call("connect", last.c + 1)>>

\* C2: in zero-retry mode onClose never calls connect() on any client; a
\* pending connect that a close scheduled is consumed only by tick(), which
\* connects the pending pool, or cancelled by an accepted login, which connects none.
C2_ZeroRetryCloseDefersConnect ==
    [][ m_retries = 0 =>
          /\ (last'.op = "onClose" => ConnectsIn(calls') = {})
          /\ ((m_pendingConnect /\ ~m_pendingConnect') =>
                 \/ last'.op = "tick" /\ calls' = <<Call("connect", m_pendingIndex)>>
                 \/ last'.op = "onLoginSuccess" /\ ConnectsIn(calls') = {}) ]_vars

\* a zero-retry close that scheduled the next pool and connected nothing
C2_Witness ==
    /\ m_retries = 0
    /\ last.op = "onClose"
    /\ last.failures >= 0
    /\ m_pendingConnect
    /\ m_pendingIndex = last.c + 1
    /\ ConnectsIn(calls) = {}

\* C3 (as stated): in zero-retry mode every onClose(c, failures >= 0) on the
\* current candidate schedules exactly one connect, on pool (m_index + 1) mod N,
\* which the next tick() issues; a tick() with nothing pending connects nothing.
\* For pools [A, B]: connect(), onClose(A, 0), tick() calls B.connect() once, and
\* onLoginSuccess(B) calls A.disconnect(), sets m_active = 1 and emits onActive(B).
C3_CloseOnCurrentSchedulesNext ==
    [][ m_retries = 0 =>
          /\ (last'.op = "onClose" /\ last'.failures >= 0 /\ last'.c = m_index) =>
                 (m_pendingConnect' /\ m_pendingIndex' = (m_index + 1) % nPools)
          /\ (last'.op = "tick" /\ m_pendingConnect) =>
                 (calls' = <<Call("connect", m_pendingIndex)>> /\ ~m_pendingConnect')
          /\ (last'.op = "tick" /\ ~m_pendingConnect) => calls' = <<>>
          /\ (nPools = 2 /\ scn' = 3) => calls' = <<Call("connect", 1)>>
          /\ (nPools = 2 /\ scn' = 4) =>
                 /\ NumCalls("disconnect", 0)' = 1
                 /\ m_active' = 1
                 /\ emits' = <<Active(1)>> ]_vars

\* the part of C3 that holds: the two-pool scenario and the draining tick
C3_TwoPoolScenario ==
    [][ m_retries = 0 =>
          /\ (last'.op = "tick" /\ m_pendingConnect) =>
                 (calls' = <<Call("connect", m_pendingIndex)>> /\ ~m_pendingConnect')
          /\ (last'.op = "tick" /\ ~m_pendingConnect) => calls' = <<>>
          /\ (nPools = 2 /\ scn' = 3) => calls' = <<Call("connect", 1)>>
          /\ (nPools = 2 /\ scn' = 4) =>
                 /\ NumCalls("disconnect", 0)' = 1
                 /\ m_active' = 1
                 /\ emits' = <<Active(1)>> ]_vars

C3_ScenarioReached == m_retries = 0 /\ nPools = 2 /\ scn = 4

\* C4: in zero-retry mode onLoginSuccess(c) with c.id < m_minAcceptableIndex
\* only disconnects c: nothing is emitted and m_active, m_index,
\* m_pendingConnect, m_pendingIndex and m_minAcceptableIndex are unchanged.
C4_LowerPoolLoginRejected ==
    [][ (m_retries = 0 /\ last'.op = "onLoginSuccess" /\ last'.c < m_minAcceptableIndex) =>
          /\ UNCHANGED strat
          /\ calls' = <<Call("disconnect", last'.c)>>
          /\ emits' = <<>> ]_vars

\* pool 0 logs in while the cascade waits for pool 1
C4_Witness ==
    /\ m_retries = 0
    /\ last.op = "onLoginSuccess"
    /\ last.c = 0
    /\ m_minAcceptableIndex = 1
    /\ m_pendingConnect
    /\ m_active = -1
    /\ calls = <<Call("disconnect", 0)>>

\* a close with failures >= 0 reported by the current candidate
CloseOnCurrent == last.op = "onClose" /\ last.failures >= 0 /\ last.c = m_index

\* tick() connected pool i
TickConnected(i) == last.op = "tick" /\ calls = <<Call("connect", i)>>

\* C5: in zero-retry mode the close of the last pool, when it is the current
\* candidate, sets the pending index to 0 and m_minAcceptableIndex to 0 and the
\* next tick connects pool 0; and when no login succeeds and stop() is not
\* called, closes of the current candidate and ticks recurring forever make
\* tick() connect every pool again and again.
C5_CascadeWrapsAndCycles ==
    /\ [][ m_retries = 0 =>
             /\ (last'.op = "onClose" /\ last'.failures >= 0 /\ last'.c = m_index
                   /\ m_index = nPools - 1) =>
                    (m_pendingConnect' /\ m_pendingIndex' = 0 /\ m_minAcceptableIndex' = 0)
             /\ (last'.op = "tick" /\ m_pendingConnect /\ m_pendingIndex = 0) =>
                    (calls' = <<Call("connect", 0)>> /\ m_index' = 0) ]_vars
    /\ \A i \in 0 .. (MaxPools - 1) :
          ( /\ [](m_retries = 0 /\ last.op \notin {"stop", "onLoginSuccess"})
            /\ []<>CloseOnCurrent
            /\ []<>(last.op = "tick") )
          => []<>(i >= nPools \/ TickConnected(i))

\* three pools, the last one closed, and the tick connected pool 0 again
C5_Witness ==
    /\ m_retries = 0
    /\ nPools = 3
    /\ TickConnected(0)
    /\ m_index = 0
    /\ m_minAcceptableIndex = 0
    /\ cstate[2] = "unconnected"

\* C6 (as stated): for any retries setting, a close (failures >= 0 and
\* failures >= retries) of the last pool while it is the current candidate
\* wraps to pool 0: pool 0 is connected, at once or by the pending connect.
C6_LastPoolCloseWraps ==
    [][ (last'.op = "onClose" /\ last'.failures >= 0 /\ last'.failures >= m_retries
           /\ last'.c = m_index /\ m_index = nPools - 1) =>
          \/ (m_pendingConnect' /\ m_pendingIndex' = 0)
          \/ 0 \in ConnectsIn(calls') ]_vars

\* C6 (amended): in zero-retry mode the close of the last pool schedules pool 0
\* through the pending connect; in nonzero-retry mode it leaves m_index on the
\* last pool, schedules nothing and calls no client method.
C6_LastPoolCloseWrapsOnlyZeroRetry ==
    [][ (last'.op = "onClose" /\ last'.failures >= 0 /\ last'.failures >= m_retries
           /\ last'.c = m_index /\ m_index = nPools - 1) =>
          IF m_retries = 0
            THEN m_pendingConnect' /\ m_pendingIndex' = 0 /\ m_index' = m_index
            ELSE /\ m_index' = m_index
                 /\ calls' = <<>>
                 /\ UNCHANGED <<m_pendingConnect, m_pendingIndex, m_minAcceptableIndex>> ]_vars

\* nonzero-retry mode, the last of several pools closed and nothing was connected
C6_Witness ==
    /\ m_retries > 0
    /\ nPools > 1
    /\ CloseOnCurrent
    /\ last.failures >= m_retries
    /\ m_index = nPools - 1
    /\ calls = <<>>
    /\ ~m_pendingConnect

C6_WitnessZero ==
    /\ m_retries = 0
    /\ nPools > 1
    /\ CloseOnCurrent
    /\ m_index = nPools - 1
    /\ m_pendingConnect
    /\ m_pendingIndex = 0

\* C7: in zero-retry mode m_minAcceptableIndex decreases only to 0, and only in
\* an accepted onLoginSuccess or in the close of the last pool; a close that
\* advances the cascade to a next pool sets it strictly higher.
C7_MinAcceptableMonotone ==
    [][ m_retries = 0 =>
          /\ (m_minAcceptableIndex' < m_minAcceptableIndex) =>
                /\ m_minAcceptableIndex' = 0
                /\ \/ last'.op = "onLoginSuccess" /\ last'.c >= m_minAcceptableIndex
                   \/ /\ last'.op = "onClose" /\ last'.failures >= 0
                      /\ last'.c = m_index /\ m_index = nPools - 1
          /\ (last'.op = "onClose" /\ last'.failures >= 0 /\ last'.c = m_index
                /\ last'.c >= m_minAcceptableIndex /\ m_index < nPools - 1) =>
                (m_minAcceptableIndex' > m_minAcceptableIndex /\ m_pendingConnect') ]_vars

\* the cascade moved the floor from 1 to 2
C7_Witness ==
    /\ m_retries = 0
    /\ CloseOnCurrent
    /\ last.c = 1
    /\ m_minAcceptableIndex = 2
    /\ m_pendingConnect

\* C8: between handlers m_active is -1 or equal to m_index.
C8_ActiveIsIndex == m_active \in {-1, m_index}

\* a backup pool is active
C8_Witness == m_active = m_index /\ m_active > 0

\* C9: at most one client is authorized: every client that is logged in has
\* id = m_active, in particular after every onLoginSuccess.
C9_OnlyActiveAuthorized ==
    /\ \A i \in Pools : cstate[i] = "authorized" => i = m_active
    /\ Cardinality({i \in Pools : cstate[i] = "authorized"}) <= 1

\* pool 0 took the slot over from an authorized backup pool
C9_Witness ==
    /\ last.op = "onLoginSuccess"
    /\ last.c = 0
    /\ m_active = 0
    /\ cstate[0] = "authorized"
    /\ Len(calls) = nPools - 1
    /\ nPools > 1
    /\ emits = <<Active(0)>>

\* C10: onClose(c, -1) changes no strategy field, calls no client method and
\* emits nothing, also when c is the active client.
C10_ExplicitDisconnectIgnored ==
    [][ (last'.op = "onClose" /\ last'.failures = -1) =>
          /\ UNCHANGED strat
          /\ calls' = <<>>
          /\ emits' = <<>> ]_vars

\* the active client reported an explicit disconnect
C10_Witness ==
    /\ last.op = "onClose"
    /\ last.failures = -1
    /\ last.c = m_active

\* C11: a job is forwarded to the listener exactly when it comes from the
\* client whose id is m_active; any other job, and any job while m_active = -1,
\* is dropped without a listener call, and no field changes.
C11_JobOnlyFromActive ==
    [][ last'.op = "onJobReceived" =>
          /\ emits' = IF last'.c = m_active /\ m_active # -1 THEN <<JobEv(last'.c)>> ELSE <<>>
          /\ calls' = <<>>
          /\ UNCHANGED strat ]_vars

\* a job of another pool was dropped while a pool was active
C11_Witness ==
    /\ last.op = "onJobReceived"
    /\ m_active >= 0
    /\ last.c # m_active
    /\ emits = <<>>

C11_WitnessForwarded ==
    /\ last.op = "onJobReceived"
    /\ last.c = m_active
    /\ emits = <<JobEv(m_active)>>

\* C12: submit() returns -1 and calls no client while m_active = -1; otherwise
\* it calls submit on the active client only and returns that client's value.
C12_SubmitNeedsActive ==
    [][ last'.op = "submit" =>
          /\ UNCHANGED <<strat, cstate>>
          /\ IF m_active = -1
               THEN ret' = -1 /\ calls' = <<>>
               ELSE ret' = last'.seq /\ calls' = <<Call("submit", m_active)>> ]_vars

\* a submit was refused after the active pool had been lost
C12_Witness ==
    /\ last.op = "submit"
    /\ ret = -1
    /\ m_active = -1
    /\ calls = <<>>
    /\ \E i \in Pools : cstate[i] # "unconnected"

C12_WitnessForwarded ==
    /\ last.op = "submit"
    /\ ret = MaxSeq
    /\ calls = <<Call("submit", m_active)>>

AllDisconnected == [k \in 1 .. nPools |-> Call("disconnect", k - 1)]

\* C13 (as stated): a second stop() right after a first one changes no field
\* and no client, and emits no further onPause.
C13_SecondStopSilent ==
    [][ stops' = 2 =>
          /\ UNCHANGED <<strat, cstate>>
          /\ emits' = <<>> ]_vars

\* C13 (amended): a second stop() right after a first one leaves every field
\* and every client as the first one left them, but it disconnects every
\* client again and emits onPause again.
C13_SecondStopKeepsState ==
    [][ stops' = 2 =>
          /\ UNCHANGED <<strat, cstate>>
          /\ m_index' = 0 /\ m_active' = -1
          /\ calls' = AllDisconnected
          /\ emits' = <<Pause>> ]_vars

\* stop() was called twice in a row
C13_Witness == stops = 2 /\ last.op = "stop" /\ emits = <<Pause>>

\* every client but the active one is unconnected, the active one is authorized
OnlyActiveConnected ==
    /\ m_active \in Pools
    /\ \A i \in Pools : cstate[i] = IF i = m_active THEN "authorized" ELSE "unconnected"

\* C14: connect(), onLoginSuccess(c), stop(), connect() and the login success of
\* the pool that connect() targeted make the strategy active again: onActive is
\* emitted, m_active is that pool, and as after the first login no client but
\* the active one is left connected.
C14_RoundTripActive ==
    /\ rt = 2 => (m_active = last.c /\ m_index = m_active /\ OnlyActiveConnected)
    /\ rt = 3 => (m_active = -1 /\ m_index = 0 /\ \A i \in Pools : cstate[i] = "unconnected")
    /\ rt = 5 => /\ m_active = last.c
                 /\ m_index = m_active
                 /\ emits = <<Active(last.c)>>
                 /\ OnlyActiveConnected

\* the round trip completed on a strategy with several pools
C14_Witness == rt = 5 /\ nPools > 1 /\ m_active = 0 /\ cstate[0] = "authorized"

\* ---- DonateStrategy properties -----------------------------------------
Changed(to) == m_state' = to /\ m_state # to

\* C15: every state change follows the cycle: ACTIVE is entered only from
\* CONNECT, WAIT only from ACTIVE, CONNECT only from IDLE (and IDLE only from
\* NEW, WAIT or CONNECT)
C15_StateChangesFollowCycle ==
    [][/\ Changed("ACTIVE") => m_state = "CONNECT"
       /\ Changed("WAIT") => m_state = "ACTIVE"
       /\ Changed("CONNECT") => m_state = "IDLE"
       /\ Changed("IDLE") => m_state \in {"NEW", "WAIT", "CONNECT"}]_vars

\* the changes the handlers do make: ACTIVE is entered from every state a
\* login can arrive in, and IDLE is never entered from CONNECT
C15_StateChangesMade ==
    [][/\ Changed("ACTIVE") => m_state \in {"CONNECT", "WAIT", "IDLE"}
       /\ Changed("WAIT") => m_state = "ACTIVE"
       /\ Changed("CONNECT") => m_state = "IDLE"
       /\ Changed("IDLE") => m_state \in {"NEW", "WAIT"}]_vars

JobsIn(es) == {i \in DOMAIN es : es[i].ev = "onJob"}

\* C16: while the state is not ACTIVE no onJob reaches the listener: a job
\* from the nested strategy or from the proxy in NEW, IDLE, CONNECT or WAIT
\* is dropped
C16_NoJobUnlessActive ==
    [][(m_state # "ACTIVE" \/ m_state' # "ACTIVE") => JobsIn(emits') = {}]_vars

C16_Witness ==
    /\ last.op = "strategy.onJob"
    /\ m_state = "WAIT"
    /\ emits = <<>>

C16_WitnessForwarded ==
    /\ last.op = "proxy.onJob"
    /\ m_state = "ACTIVE"
    /\ emits = <<JobEv("proxy")>>

C16_WitnessConnect ==
    /\ last.op = "proxy.onJob"
    /\ m_state = "CONNECT"
    /\ emits = <<>>

\* C17: in CONNECT a close of the donation connection with a permanent
\* failure moves the strategy to IDLE and starts the 20 s retry timer
C17_ConnectFailureGoesIdle ==
    [][(m_state = "CONNECT" /\ last'.op = "proxy.onClose" /\ last'.failures >= 2)
         => (m_state' = "IDLE" /\ m_timer' = RetryTimer)]_vars

\* what the handlers do instead: CONNECT is left only by a login, and the
\* retry timer is never started
C17_ConnectLeftOnlyByLogin ==
    [][m_state = "CONNECT" => m_state' \in {"CONNECT", "ACTIVE"}]_vars

C17_RetryTimerNeverStarted == m_timer # RetryTimer

\* a step that stops the nested strategy or hands the proxy to deleteLater()
TearsDown ==
    \/ nested # "stopped" /\ nested' = "stopped"
    \/ m_proxy = "live" /\ m_proxy' = "null"
    \/ \E i \in DOMAIN calls' : calls'[i] \in {Call("stop", "strategy"), Call("deleteLater", "proxy")}

\* a tick(now) step; last'.failures holds now - m_now, m_timestamp holds deadline - m_now
TickStep == last'.op = "tick"
LateTick == TickStep /\ last'.failures > m_timestamp

\* the timer in ACTIVE enters WAIT with deadline m_now + 3000 and tears nothing down
WaitEntry ==
    Changed("WAIT") =>
        /\ m_state = "ACTIVE" /\ last'.op = "onTimer"
        /\ m_timestamp' = waitTime
        /\ emits' = <<DonatePause>>
        /\ ~TearsDown

\* in WAIT a tick(now) with now <= deadline changes nothing but the clock
EarlyTickKeepsWait ==
    (m_state = "WAIT" /\ TickStep /\ ~LateTick) =>
        /\ m_state' = "WAIT"
        /\ ~TearsDown
        /\ m_timer' = m_timer

\* in WAIT a tick(now) with now > deadline ends the grace period
LateTickTearsDown ==
    (m_state = "WAIT" /\ LateTick) =>
        /\ m_state' = "IDLE"
        /\ nested' = "stopped"
        /\ m_proxy' = "null"
        /\ NumCalls("stop", "strategy")' = 1
        /\ NumCalls("deleteLater", "proxy")' = (IF m_proxy = "live" THEN 1 ELSE 0)
        /\ m_timer' = IdleTimer(8, 12)

\* C18 (as stated): after ACTIVE -> WAIT the nested strategy is not stopped
\* and the proxy is not deleted until a tick(now) with now > deadline =
\* m_now at WAIT entry + 3000; that tick moves to IDLE, stops the nested
\* strategy, deletes and clears the proxy and starts an idle timer
C18_TeardownOnlyOnLateTick ==
    [][/\ WaitEntry
       /\ EarlyTickKeepsWait
       /\ LateTickTearsDown
       /\ (m_state = "WAIT" /\ TearsDown) => LateTick]_vars

\* C18 (amended): the same, except that during the grace period an external
\* stop() stops the nested strategy and a proxy close with failures = 2 under
\* proxyDonate = AUTO deletes the proxy before the deadline
C18_TeardownOnLateTickStopOrFallback ==
    [][/\ WaitEntry
       /\ EarlyTickKeepsWait
       /\ LateTickTearsDown
       /\ (m_state = "WAIT" /\ TearsDown) =>
             \/ LateTick
             \/ last'.op = "stop"
             \/ last'.op = "proxy.onClose" /\ last'.failures = 2 /\ proxyDonate = "AUTO"]_vars

\* the grace period ended by a late tick, with a proxy to delete
C18_Witness ==
    /\ last.op = "tick"
    /\ m_state = "IDLE"
    /\ nested = "stopped"
    /\ m_proxy = "null"
    /\ calls = <<Call("tick", "strategy"), Call("tick", "proxy"), Call("stop", "strategy"),
                 Call("deleteLater", "proxy"), Call("start", "timer")>>
    /\ m_timer = IdleTimer(8, 12)

\* a tick exactly at the deadline leaves the grace period running
C18_WitnessAtDeadline ==
    /\ last.op = "tick"
    /\ m_state = "WAIT"
    /\ m_timestamp = 0
    /\ nested = "active"

\* the first onClose(proxy, 2) on a live proxy under AUTO: the proxy is handed
\* to deleteLater(), m_proxy is cleared and the nested strategy connects once
C19_FirstCloseFallsBack ==
    pscn = 1 =>
        /\ m_proxy = "null" /\ zombie /\ ~fault
        /\ calls = <<Call("deleteLater", "proxy"), Call("connect", "strategy")>>

\* C19: with proxyDonate = AUTO and a live proxy, two onClose(proxy, 2) delete
\* the proxy (deleteLater, m_proxy cleared) and call connect() on the nested
\* strategy exactly once; the second close does not touch the deleted proxy
C19_TwoClosesOneFallback ==
    /\ C19_FirstCloseFallsBack
    /\ pscn = 2 =>
          /\ ~fault
          /\ m_proxy = "null"
          /\ NumCalls("connect", "strategy") = 0
          /\ NumCalls("deleteLater", "null") = 0

C19_SecondCloseCrashes == pscn = 2 /\ fault
C19_SecondCloseConnectsAgain == pscn = 2 /\ ~fault /\ NumCalls("connect", "strategy") = 1

TimerPending == m_timer.on
TornDown == m_state = "IDLE" /\ nested = "stopped" /\ m_proxy = "null" /\ TimerPending

\* the donate timer ends the window unless stop() cancelled it
C20_ActiveLeadsToWait ==
    [](m_state = "ACTIVE" => <>(m_state = "WAIT" \/ (m_state = "ACTIVE" /\ ~TimerPending)))

\* the grace period ends with the donation connection torn down and an idle
\* timer pending (unless a window was re-opened and stop() cancelled its timer)
C20_WaitLeadsToIdle ==
    (m_state = "WAIT") ~> (TornDown \/ (m_state = "ACTIVE" /\ ~TimerPending))

\* the idle timer starts the next window unless stop() cancelled it
C20_IdleLeadsToConnect ==
    [](m_state = "IDLE" => <>(m_state = "CONNECT" \/ (m_state = "IDLE" /\ ~TimerPending)))

\* C20: every donation window ends: provided the timer fires and ticks keep
\* arriving with increasing time, ACTIVE leads to WAIT, WAIT leads to IDLE
\* with the connection torn down and an idle timer pending, and IDLE leads to
\* CONNECT again
C20_EveryWindowEnds ==
    /\ C20_ActiveLeadsToWait
    /\ C20_WaitLeadsToIdle
    /\ C20_IdleLeadsToConnect

\* the DonateStrategy half of C13: a second stop() right after a first one
\* changes no field and emits nothing to the listener
C13_DonateSecondStopSilent ==
    [][(stops = 1 /\ stops' = 2) =>
          /\ <<m_state, m_timer, m_proxy, m_timestamp, nested>>' =
             <<m_state, m_timer, m_proxy, m_timestamp, nested>>
          /\ m_timer' = TimerOff /\ nested' = "stopped"
          /\ emits' = <<>>]_vars

C13_DonateWitness == stops = 2 /\ last.op = "stop" /\ m_state = "ACTIVE"

\* =========================================================================
\* Verthash, the dataset manager (src/crypto/verthash/VerthashWrapper.cpp,
\* VerthashWrapper.h) and Vh::init (src/crypto/verthash/Vh.cpp)
\*
\* Threads call init(path), release(), hash() and Vh::init(config).  A call is
\* a sequence of steps; the steps between lock and unlock of m_mutex are the
\* body of init() or release().  hash() and the accessors take no lock.
\* =========================================================================

\* what the loader writes for file p
FileSize(p) == p
FileMask(p) == p

\* VerthashWrapper.h line 45
isValid == m_info.data # 0 /\ m_info.dataSize > 0

Goto(t, f) == th' = [th EXCEPT ![t] = f]
At(t, pc) == th[t].pc = pc

\* a thread starts a call of Verthash::init / release / hash
vhCall(t, op, path) ==
    /\ th[t].pc \in {"idle", "done"}
    /\ ncalls < MaxCalls
    /\ ncalls' = ncalls + 1
    /\ Goto(t, [IdleThread EXCEPT !.op = op, !.path = path,
                  !.pc = CASE op = "init" -> "i_enter"
                           [] op = "release" -> "r_enter"
                           [] op = "hash" -> "h_valid"])
    /\ UNCHANGED <<m_info, m_initialized, m_mutex, files, heap, loads>>

\* Vh.cpp line 54
dataFileOf(dat) == IF dat = 0 THEN kDefaultDataFile ELSE dat

\* Vh.cpp lines 29-32: Vh::init(config) is called
vhInitCall(t, gen, dat) ==
    /\ th[t].pc \in {"idle", "done"}
    /\ ncalls < MaxCalls
    /\ ncalls' = ncalls + 1
    /\ Goto(t, IF gen # 0
                 THEN [IdleThread EXCEPT !.op = "vhInit", !.gen = gen, !.dat = dat, !.pc = "v_gen"]
                 ELSE [IdleThread EXCEPT !.op = "vhInit", !.gen = gen, !.dat = dat,
                                         !.path = dataFileOf(dat), !.asked = dataFileOf(dat),
                                         !.pc = "i_enter"])
    /\ UNCHANGED <<m_info, m_initialized, m_mutex, files, heap, loads>>

\* Vh.cpp line 39
generateFailed_ignored(result) == FALSE
generateFailed(result) == result # 0

\* Vh.cpp line 48
useGenerated_always(t) == TRUE
useGenerated(t) == th[t].dat = 0

\* Vh.cpp lines 37-54: generateDataFile returned result (0: the file now exists)
vhGenerate(t, result) ==
    /\ At(t, "v_gen")
    /\ IF generateFailed(result)
         THEN /\ Goto(t, [th[t] EXCEPT !.pc = "done", !.ret = "false", !.res = result])
              /\ files' = files
         ELSE LET f == IF useGenerated(t) THEN th[t].gen ELSE dataFileOf(th[t].dat)
              IN /\ Goto(t, [th[t] EXCEPT !.pc = "i_enter", !.path = f, !.asked = f,
                                          !.res = result])
                 /\ files' = IF result = 0 THEN files \cup {th[t].gen} ELSE files
    /\ UNCHANGED <<m_info, m_initialized, m_mutex, heap, ncalls, loads>>

\* std::lock_guard: the mutex is free
canLock_always == TRUE
canLock == m_mutex = 0

\* VerthashWrapper.cpp lines 45 and 47
alreadyLoaded_never == FALSE
alreadyLoaded == m_initialized /\ m_info.data # 0
sameFile_never(t) == FALSE
sameFile(t) == m_info.fileName # 0 /\ m_info.fileName = th[t].path

\* lines 43-49: lock, then the test for an already loaded file (old keeps the
\* region that a call for another file is about to free)
initEnter(t) ==
    /\ At(t, "i_enter")
    /\ canLock
    /\ m_mutex' = t
    /\ Goto(t, IF alreadyLoaded
                 THEN IF sameFile(t) THEN [th[t] EXCEPT !.pc = "exit", !.ret = "true"]
                                     ELSE [th[t] EXCEPT !.pc = "i_free", !.old = m_info.data]
                 ELSE [th[t] EXCEPT !.pc = "i_load"])
    /\ UNCHANGED <<m_info, m_initialized, files, heap, ncalls, loads>>

\* verthash_info_free(&m_info)
FreeRegion == IF m_info.data = 0 THEN heap
              ELSE [heap EXCEPT ![m_info.data].st = "freed"]

\* line 51
initFree(t) ==
    /\ At(t, "i_free")
    /\ heap' = FreeRegion
    /\ Goto(t, [th[t] EXCEPT !.pc = "i_zero"])
    /\ UNCHANGED <<m_info, m_initialized, m_mutex, files, ncalls, loads>>

\* line 52
initZero(t) ==
    /\ At(t, "i_zero")
    /\ m_info' = ZeroInfo
    /\ Goto(t, [th[t] EXCEPT !.pc = "i_load"])
    /\ UNCHANGED <<m_initialized, m_mutex, files, heap, ncalls, loads>>

\* line 58
flagAfterFailure_kept == m_initialized
flagAfterFailure == FALSE

\* lines 55-60: verthash_info_init begins; an unreadable file fails the call.
\* A readable one gets a region, m_info.data and m_info.fileName are set and
\* the file is read into the region
initLoad(t) ==
    /\ At(t, "i_load")
    /\ loads' = loads + 1
    /\ IF th[t].path \in files
         THEN /\ heap' = [heap EXCEPT ![loads + 1] = [st |-> "filling", path |-> th[t].path]]
              /\ m_info' = [m_info EXCEPT !.data = loads + 1, !.fileName = th[t].path]
              /\ m_initialized' = m_initialized
              /\ Goto(t, [th[t] EXCEPT !.pc = "i_loaded", !.loaded = TRUE])
         ELSE /\ heap' = heap
              /\ m_info' = ZeroInfo
              /\ m_initialized' = flagAfterFailure
              /\ Goto(t, [th[t] EXCEPT !.pc = "exit", !.ret = "false", !.loaded = TRUE])
    /\ UNCHANGED <<m_mutex, files, ncalls>>

\* verthash_info_init ends: the region is complete, dataSize and bitmask are set
initLoaded(t) ==
    /\ At(t, "i_loaded")
    /\ heap' = [heap EXCEPT ![m_info.data].st = "full"]
    /\ m_info' = [m_info EXCEPT !.dataSize = FileSize(th[t].path), !.bitmask = FileMask(th[t].path)]
    /\ Goto(t, [th[t] EXCEPT !.pc = "i_commit"])
    /\ UNCHANGED <<m_initialized, m_mutex, files, ncalls, loads>>

\* lines 62-63
initCommit(t) ==
    /\ At(t, "i_commit")
    /\ m_initialized' = TRUE
    /\ Goto(t, [th[t] EXCEPT !.pc = "exit", !.ret = "true"])
    /\ UNCHANGED <<m_info, m_mutex, files, heap, ncalls, loads>>

\* lines 68-70
releaseEnter(t) ==
    /\ At(t, "r_enter")
    /\ canLock
    /\ m_mutex' = t
    /\ Goto(t, [th[t] EXCEPT !.pc = IF m_initialized THEN "r_free" ELSE "exit"])
    /\ UNCHANGED <<m_info, m_initialized, files, heap, ncalls, loads>>

\* line 71
releaseFree(t) ==
    /\ At(t, "r_free")
    /\ heap' = FreeRegion
    /\ Goto(t, [th[t] EXCEPT !.pc = "r_zero"])
    /\ UNCHANGED <<m_info, m_initialized, m_mutex, files, ncalls, loads>>

\* lines 72-73
releaseZero(t) ==
    /\ At(t, "r_zero")
    /\ m_info' = ZeroInfo
    /\ m_initialized' = FALSE
    /\ Goto(t, [th[t] EXCEPT !.pc = "exit"])
    /\ UNCHANGED <<m_mutex, files, heap, ncalls, loads>>

\* the lock_guard is destroyed and the call returns; Vh::init returns what
\* Verthash::init returned (Vh.cpp lines 49, 60-72)
callExit(t) ==
    /\ At(t, "exit")
    /\ m_mutex' = 0
    /\ Goto(t, [th[t] EXCEPT !.pc = "done"])
    /\ UNCHANGED <<m_info, m_initialized, files, heap, ncalls, loads>>

\* lines 79-82: hash() tests isValid() without the mutex
hashValid(t) ==
    /\ At(t, "h_valid")
    /\ Goto(t, IF isValid THEN [th[t] EXCEPT !.pc = "h_args"]
                          ELSE [th[t] EXCEPT !.pc = "done", !.ret = "zeros"])
    /\ UNCHANGED <<m_info, m_initialized, m_mutex, files, heap, ncalls, loads>>

\* line 84: the arguments m_info.data and m_info.dataSize are read
hashArgs(t) ==
    /\ At(t, "h_args")
    /\ Goto(t, [th[t] EXCEPT !.pc = "h_use", !.d = m_info.data, !.s = m_info.dataSize])
    /\ UNCHANGED <<m_info, m_initialized, m_mutex, files, heap, ncalls, loads>>

\* what verthash_hash finds behind its arguments
Observed(d, s) ==
    IF d = 0 THEN "null"
    ELSE IF heap[d].st # "full" THEN heap[d].st
    ELSE IF s # FileSize(heap[d].path) THEN "torn"
    ELSE "ok"

\* lines 84-86: verthash_hash reads the region
hashUse(t) ==
    /\ At(t, "h_use")
    /\ Goto(t, [th[t] EXCEPT !.pc = "done", !.ret = "hashed", !.obs = Observed(th[t].d, th[t].s)])
    /\ UNCHANGED <<m_info, m_initialized, m_mutex, files, heap, ncalls, loads>>

InitV ==
    /\ nPools = 1 /\ m_retries = 0
    /\ FieldDefaults
    /\ cstate = [i \in Pools |-> "unconnected"]
    /\ calls = <<>> /\ emits = <<>>
    /\ last = Event("new", -1, 0)
    /\ scn = 0 /\ rt = 0 /\ stops = 0 /\ ret = 0
    /\ proxyDonate = "NONE"
    /\ DonateDefaults
    /\ VerthashDefaults
    /\ files \in SUBSET Paths

\* the other two machines do not move
Rest == UNCHANGED <<fvars, dvars, calls, emits, last, stops>>

NextV ==
    \/ \E t \in Threads, p \in Paths : vhCall(t, "init", p) /\ Rest
    \/ \E t \in Threads : vhCall(t, "release", 0) /\ Rest
    \/ \E t \in Threads : vhCall(t, "hash", 0) /\ Rest
    \/ \E t \in Threads : initEnter(t) /\ Rest
    \/ \E t \in Threads : initFree(t) /\ Rest
    \/ \E t \in Threads : initZero(t) /\ Rest
    \/ \E t \in Threads : initLoad(t) /\ Rest
    \/ \E t \in Threads : initLoaded(t) /\ Rest
    \/ \E t \in Threads : initCommit(t) /\ Rest
    \/ \E t \in Threads : releaseEnter(t) /\ Rest
    \/ \E t \in Threads : releaseFree(t) /\ Rest
    \/ \E t \in Threads : releaseZero(t) /\ Rest
    \/ \E t \in Threads : callExit(t) /\ Rest
    \/ \E t \in Threads : hashValid(t) /\ Rest
    \/ \E t \in Threads : hashArgs(t) /\ Rest
    \/ \E t \in Threads : hashUse(t) /\ Rest

\* the threads of the miner calling init(), release() and hash() of the singleton
SpecVerthash == InitV /\ [][NextV]_vars

\* startup and shutdown on the main thread: Vh::init(config), Vh::destroy()
NextVh ==
    \/ \E gen, dat \in 0 .. MaxPaths : vhInitCall(1, gen, dat) /\ Rest
    \/ \E result \in 0 .. 1 : vhGenerate(1, result) /\ Rest
    \/ vhCall(1, "release", 0) /\ Rest
    \/ initEnter(1) /\ Rest
    \/ initFree(1) /\ Rest
    \/ initZero(1) /\ Rest
    \/ initLoad(1) /\ Rest
    \/ initLoaded(1) /\ Rest
    \/ initCommit(1) /\ Rest
    \/ releaseEnter(1) /\ Rest
    \/ releaseFree(1) /\ Rest
    \/ releaseZero(1) /\ Rest
    \/ callExit(1) /\ Rest

SpecVh == InitV /\ [][NextVh]_vars

InfoOf(p, r) == [data |-> r, dataSize |-> FileSize(p), bitmask |-> FileMask(p), fileName |-> p]

TypeOKV ==
    /\ m_info.data \in 0 .. MaxCalls
    /\ m_info.fileName \in 0 .. MaxPaths
    /\ m_initialized \in BOOLEAN
    /\ m_mutex \in 0 .. MaxThreads
    /\ files \subseteq Paths
    /\ loads <= ncalls /\ ncalls <= MaxCalls
    /\ \A t \in Threads : th[t].ret \in {"none", "true", "false", "zeros", "hashed"}
    /\ (m_mutex = 0 /\ ~m_initialized) => m_info = ZeroInfo
    /\ (m_mutex = 0 /\ m_initialized) =>
           m_info = InfoOf(m_info.fileName, m_info.data) /\ heap[m_info.data].st = "full"

\* ---- Verthash properties -------------------------------------------------
\* thread t takes the step that leaves position pc
Leaves(t, pc) == th[t].pc = pc /\ th'[t].pc # pc

\* C21: init(p) on a manager that is valid with the same path p returns true
\* without invoking the loader or freeing the region, and leaves
\* (data, size, bitmask, path) unchanged
C21_InitSamePathIsNoOp ==
    [][\A t \in Threads :
         /\ (Leaves(t, "i_enter") /\ isValid /\ m_info.fileName = th[t].path) =>
               /\ th'[t].pc = "exit" /\ th'[t].ret = "true" /\ ~th'[t].loaded
               /\ UNCHANGED <<m_info, m_initialized, heap, loads>>
         /\ (Leaves(t, "exit") /\ th[t].op \in {"init", "vhInit"} /\ ~th[t].loaded
                /\ th[t].ret = "true") =>
               /\ th'[t].pc = "done" /\ th'[t].ret = "true"
               /\ UNCHANGED <<m_info, m_initialized, heap, loads>>]_vars

\* a second init(p) has returned true and the first load is still the only one
C21_Witness ==
    \E t \in Threads :
        /\ th[t].pc = "done" /\ th[t].op = "init" /\ th[t].ret = "true" /\ ~th[t].loaded
        /\ m_info = InfoOf(th[t].path, 1) /\ heap[1].st = "full"
        /\ loads = 1 /\ ncalls >= 2

\* C22: init(q) on a manager valid with another path frees the old region
\* and loads q: on success path() = q and isValid(); on failure init returns
\* false and the manager is empty (data null, size 0, flag cleared), the old
\* region is not kept
C22_InitOtherPathReloads ==
    \A t \in Threads :
        (th[t].pc = "exit" /\ th[t].op = "init" /\ th[t].old # 0) =>
            /\ heap[th[t].old].st = "freed"
            /\ th[t].loaded
            /\ IF th[t].path \in files
                 THEN /\ th[t].ret = "true"
                      /\ m_info = InfoOf(th[t].path, m_info.data)
                      /\ m_info.data # th[t].old /\ heap[m_info.data].st = "full"
                      /\ isValid /\ m_initialized
                 ELSE /\ th[t].ret = "false"
                      /\ m_info = ZeroInfo
                      /\ ~isValid /\ ~m_initialized

\* q loaded in place of p
C22_Witness ==
    \E t \in Threads :
        /\ th[t].pc = "exit" /\ th[t].op = "init" /\ th[t].old # 0
        /\ th[t].ret = "true" /\ m_info.fileName = th[t].path
        /\ heap[th[t].old].path # th[t].path

\* q failed to load and p is gone
C22_WitnessFailure ==
    \E t \in Threads :
        /\ th[t].pc = "exit" /\ th[t].op = "init" /\ th[t].old # 0
        /\ th[t].ret = "false" /\ m_info = ZeroInfo /\ ~m_initialized

\* C23: a thread that calls hash() (or reads the accessors) without the
\* mutex while another thread runs init(q) or release() sees the complete old
\* region or the complete new one, never a freed, empty or partly written one
C23_ReadersSeeCompleteRegion ==
    \A t \in Threads : th[t].obs \in {"none", "ok"}

\* the outcomes a reader does meet
C23_ReaderUsesFreedRegion == \E t \in Threads : th[t].obs = "freed"
C23_ReaderUsesNullRegion == \E t \in Threads : th[t].obs = "null"
C23_ReaderUsesPartRegion == \E t \in Threads : th[t].obs \in {"filling", "torn"}

\* the statements of init() and release() between lock and unlock
Body == {"i_free", "i_zero", "i_load", "i_loaded", "i_commit", "r_free", "r_zero", "exit"}
InBody(t) == th[t].pc \in Body

\* C24: the bodies of init() and release() are mutually exclusive, and when
\* two threads call init(p) with the same loadable path on an uninitialized
\* manager (their calls are the only ones) the file is loaded exactly once
\* and both calls return true
C24_ConcurrentInitLoadsOnce ==
    /\ \A t, u \in Threads : (InBody(t) /\ InBody(u)) => t = u
    /\ \A t \in Threads : InBody(t) <=> m_mutex = t
    /\ \A t, u \in Threads :
          (/\ t # u /\ ncalls = 2
           /\ th[t].pc = "done" /\ th[u].pc = "done"
           /\ th[t].op = "init" /\ th[u].op = "init"
           /\ th[t].path = th[u].path /\ th[t].path \in files) =>
              /\ loads = 1
              /\ th[t].ret = "true" /\ th[u].ret = "true"
              /\ m_info = InfoOf(th[t].path, 1)

\* both calls have returned, one of them found the file loaded by the other
C24_Witness ==
    \E t, u \in Threads :
        /\ t # u /\ ncalls = 2 /\ loads = 1
        /\ th[t].pc = "done" /\ th[u].pc = "done"
        /\ th[t].op = "init" /\ th[u].op = "init" /\ th[t].path = th[u].path
        /\ th[t].ret = "true" /\ th[u].ret = "true"
        /\ th[t].loaded /\ ~th[u].loaded

\* one thread is loading while the other waits for the mutex
C24_WitnessContention ==
    \E t, u \in Threads :
        /\ th[t].pc = "i_loaded" /\ th[u].pc = "i_enter"
        /\ th[t].path = th[u].path /\ ncalls = 2

\* ---- FailoverStrategy properties (continued) ---------------------------
\* C25: nonzero-retry mode, onClose(c, failures >= 0): with m_index = 0 and
\* failures < retries nothing advances; otherwise, if c is m_index and a next
\* pool exists, m_index increases by exactly 1 and connect() is called on that
\* pool in the same handler; a close from another client or on the last pool
\* changes m_index not at all and connects nothing
C25_NonzeroRetryCloseAdvances ==
    [][(last'.op = "onClose" /\ last'.failures >= 0 /\ m_retries > 0) =>
          IF m_index = 0 /\ last'.failures < m_retries
            THEN m_index' = m_index /\ calls' = <<>>
            ELSE IF last'.c = m_index /\ m_index + 1 < nPools
                   THEN m_index' = m_index + 1 /\ calls' = <<Call("connect", m_index + 1)>>
                   ELSE m_index' = m_index /\ calls' = <<>>]_vars

\* a pool above 0 closed with its first failure and the strategy advanced
C25_Witness ==
    /\ m_retries > 0
    /\ last.op = "onClose" /\ last.failures = 0 /\ last.c = 1
    /\ m_index = 2
    /\ calls = <<Call("connect", 2)>>

\* pool 0 closed with failures >= retries and the strategy advanced to pool 1
C25_WitnessPoolZero ==
    /\ m_retries > 0
    /\ last.op = "onClose" /\ last.failures >= m_retries /\ last.c = 0
    /\ m_index = 1
    /\ calls = <<Call("connect", 1)>>

\* pool 0 closed with failures < retries and retries in place
C25_WitnessRetry ==
    /\ m_retries > 0
    /\ last.op = "onClose" /\ last.failures >= 0 /\ last.failures < m_retries /\ last.c = 0
    /\ m_index = 0
    /\ calls = <<>>

\* an onLoginSuccess step that passed the lower-pool guard
AcceptedLogin == last'.op = "onLoginSuccess" /\ ~loginRejected(last'.c)

\* C26: an accepted onLoginSuccess(c) clears m_pendingConnect and resets
\* m_minAcceptableIndex; c becomes active iff c.id = 0 or no pool is active,
\* otherwise the previously active pool stays active and c itself is
\* disconnected; every pool other than the resulting active one is
\* disconnected in either retry mode; onActive is emitted, with
\* m_index = m_active = c.id, iff the active id changed
C26_AcceptedLoginSelectsActive ==
    [][AcceptedLogin =>
          LET c == last'.c IN
          /\ m_pendingConnect' = FALSE
          /\ m_minAcceptableIndex' = 0
          /\ (m_active' = c) <=> (c = 0 \/ m_active = -1)
          /\ (m_active' # c) => /\ m_active' = m_active
                                /\ \E k \in 1 .. Len(calls') : calls'[k] = Call("disconnect", c)
          /\ \A i \in 0 .. nPools - 1 :
                (i # m_active') <=> (\E k \in 1 .. Len(calls') : calls'[k] = Call("disconnect", i))
          /\ (emits' = <<Active(c)>>) <=> (m_active' # m_active)
          /\ (m_active' = m_active) => emits' = <<>>
          /\ (m_active' # m_active) => (m_index' = c /\ m_active' = c)]_vars

\* C26 (amended): as C26, but c is the active pool afterwards iff c.id = 0, or
\* no pool was active, or c was the active pool already; in the last case
\* nothing is emitted and c is not disconnected
C26_AcceptedLoginKeepsOrSelectsActive ==
    [][AcceptedLogin =>
          LET c == last'.c IN
          /\ m_pendingConnect' = FALSE
          /\ m_minAcceptableIndex' = 0
          /\ (m_active' = c) <=> (c = 0 \/ m_active = -1 \/ m_active = c)
          /\ (m_active' # c) => /\ m_active' = m_active
                                /\ \E k \in 1 .. Len(calls') : calls'[k] = Call("disconnect", c)
          /\ \A i \in 0 .. nPools - 1 :
                (i # m_active') <=> (\E k \in 1 .. Len(calls') : calls'[k] = Call("disconnect", i))
          /\ (emits' = <<Active(c)>>) <=> (m_active' # m_active)
          /\ (m_active' = m_active) => emits' = <<>>
          /\ (m_active' # m_active) => (m_index' = c /\ m_active' = c)]_vars

\* a backup pool logged in while another pool was active and was disconnected
C26_Witness ==
    /\ m_retries > 0
    /\ last.op = "onLoginSuccess" /\ last.c = 2
    /\ m_active = 1
    /\ emits = <<>>
    /\ \E k \in 1 .. Len(calls) : calls[k] = Call("disconnect", 2)

\* the active backup pool logged in again and stayed active
C26_WitnessRelogin ==
    /\ m_retries > 0
    /\ last.op = "onLoginSuccess" /\ last.c = 1
    /\ m_active = 1
    /\ emits = <<>>
    /\ calls = <<Call("disconnect", 0), Call("disconnect", 2)>>

\* C28: stop() returns the strategy to its freshly constructed control state
\* for any prior history: after stop(), m_index = 0, m_active = -1,
\* m_pendingConnect = false and m_minAcceptableIndex = 0
C28_StopResetsControlState ==
    last.op = "stop" =>
        /\ m_index = 0
        /\ m_active = -1
        /\ m_pendingConnect = FALSE
        /\ m_minAcceptableIndex = 0

\* C28, the consequences it names: the tick() after a stop() issues no
\* connect(), and a login of pool 0 right after a stop() is not rejected
C28_StopSilencesTickAndKeepsPoolZero ==
    [][last.op = "stop" =>
          /\ last'.op = "tick" => calls' = <<>>
          /\ (last'.op = "onLoginSuccess" /\ last'.c = 0) => m_active' = 0]_vars

\* C29: with N >= 1 pools and events from the strategy's own clients, in
\* every reachable state 0 <= m_index < N, -1 <= m_active < N,
\* m_pendingIndex < N and m_minAcceptableIndex < N, so every m_pools[...]
\* access of connect(), connectNext(), onClose() and submit() is in bounds
C29_IndicesInBounds ==
    /\ nPools >= 1
    /\ 0 <= m_index /\ m_index < nPools
    /\ -1 <= m_active /\ m_active < nPools
    /\ 0 <= m_pendingIndex /\ m_pendingIndex < nPools
    /\ 0 <= m_minAcceptableIndex /\ m_minAcceptableIndex < nPools
    /\ \A k \in 1 .. Len(calls) : calls[k].c \in 0 .. nPools - 1

\* the cascade has reached the last of several pools: every index is at N - 1
C29_Witness ==
    /\ nPools >= 2
    /\ m_index = nPools - 1
    /\ m_pendingIndex = nPools - 1
    /\ m_minAcceptableIndex = nPools - 1
    /\ last.op = "tick" /\ calls = <<Call("connect", nPools - 1)>>

\* the last pool closed and the cascade wrapped around to pool 0
C29_WitnessWrap ==
    /\ nPools >= 2 /\ m_retries = 0
    /\ last.op = "onClose" /\ last.c = nPools - 1
    /\ m_index = nPools - 1
    /\ m_pendingConnect /\ m_pendingIndex = 0 /\ m_minAcceptableIndex = 0

\* ---- Vh properties -------------------------------------------------------
\* the file Vh::init hands to the dataset manager for (genDataFile, dataFile)
VhChoice(gen, dat) ==
    IF gen # 0 /\ dat = 0 THEN gen ELSE IF dat = 0 THEN kDefaultDataFile ELSE dat

\* C27: Vh::init: when genDataFile is configured and generateDataFile returns
\* nonzero, init returns false and the dataset manager's init is never called
\* (the singleton is untouched); when generation succeeds and no dataFile is
\* configured the generated file is loaded; otherwise the configured dataFile,
\* or "verthash.dat" when none is configured, is loaded; init returns the
\* loader's success
C27_VhInitChoosesFile ==
    [][/\ (Leaves(1, "v_gen") /\ th'[1].res # 0) =>
             /\ th'[1].pc = "done" /\ th'[1].ret = "false" /\ th'[1].asked = 0
             /\ UNCHANGED <<m_info, m_initialized, m_mutex, heap, loads>>
       /\ (Leaves(1, "v_gen") /\ th'[1].res = 0) =>
             /\ th'[1].pc = "i_enter"
             /\ th'[1].asked = VhChoice(th[1].gen, th[1].dat)
             /\ th'[1].path = th'[1].asked
       /\ (ncalls' = ncalls + 1 /\ th'[1].op = "vhInit" /\ th'[1].gen = 0) =>
             /\ th'[1].pc = "i_enter"
             /\ th'[1].asked = VhChoice(0, th'[1].dat)
             /\ th'[1].path = th'[1].asked
       /\ (Leaves(1, "exit") /\ th[1].op = "vhInit") =>
             /\ th'[1].pc = "done"
             /\ th'[1].asked = VhChoice(th[1].gen, th[1].dat)
             /\ th'[1].ret \in {"true", "false"}
             /\ (th'[1].ret = "true") <=> (isValid' /\ m_info'.fileName = th[1].asked)
             /\ (th'[1].ret = "false") => (m_info' = ZeroInfo /\ ~m_initialized')]_vars

\* generation succeeded with no dataFile configured and the generated file is loaded
C27_Witness ==
    /\ th[1].op = "vhInit" /\ th[1].pc = "done"
    /\ th[1].gen = 2 /\ th[1].dat = 0 /\ th[1].res = 0
    /\ th[1].ret = "true" /\ th[1].loaded
    /\ isValid /\ m_info.fileName = 2

\* generation failed: init returned false and the manager was never asked
C27_WitnessGenerateFailed ==
    /\ th[1].op = "vhInit" /\ th[1].pc = "done"
    /\ th[1].gen # 0 /\ th[1].res # 0
    /\ th[1].ret = "false" /\ th[1].asked = 0
    /\ isValid

\* nothing is configured and "verthash.dat" cannot be loaded
C27_WitnessDefaultFile ==
    /\ th[1].op = "vhInit" /\ th[1].pc = "done"
    /\ th[1].gen = 0 /\ th[1].dat = 0
    /\ th[1].asked = kDefaultDataFile /\ th[1].loaded
    /\ th[1].ret = "false"

\* generation succeeded and the configured dataFile, not the generated one, is loaded
C27_WitnessConfiguredFile ==
    /\ th[1].op = "vhInit" /\ th[1].pc = "done"
    /\ th[1].gen = 1 /\ th[1].dat = 2 /\ th[1].res = 0
    /\ th[1].ret = "true" /\ m_info.fileName = 2

\* ---- DonateStrategy properties (continued) -------------------------------
\* the handler of this step started the timer
StartsTimer == \E k \in 1 .. Len(calls') : calls'[k] = Call("start", "timer")

\* C30: the onActive and onPause callbacks that DonateStrategy emits to its
\* listener strictly alternate, starting with onActive; onActive is emitted
\* only on entering ACTIVE (a login success or a nested onActive while
\* already ACTIVE emits nothing and does not restart the donate timer),
\* onPause only on ACTIVE -> WAIT, and an onPause of the nested strategy is
\* never forwarded
C30_ActiveAndPauseAlternate ==
    [][/\ heard' # "broken"
       /\ (heard' # heard /\ heard' = "onActive") => (m_state # "ACTIVE" /\ m_state' = "ACTIVE")
       /\ (heard' # heard /\ heard' = "onPause") => (m_state = "ACTIVE" /\ m_state' = "WAIT")
       /\ (m_state # "ACTIVE" /\ m_state' = "ACTIVE") => heard' = "onActive"
       /\ (m_state = "ACTIVE" /\ m_state' # "ACTIVE") => heard' = "onPause"
       /\ (last'.op \in {"proxy.onLoginSuccess", "strategy.onActive"} /\ m_state = "ACTIVE") =>
             /\ emits' = <<>>
             /\ heard' = heard
             /\ m_timer' = m_timer /\ ~StartsTimer
       /\ last'.op = "strategy.onPause" => (emits' = <<>> /\ heard' = heard)]_vars

\* a donation window was opened and closed: onActive, then onPause, then the teardown
C30_Witness == heard = "onPause" /\ m_state = "IDLE" /\ last.op = "tick"

\* a login success arrived while ACTIVE and nothing was emitted
C30_WitnessSilentLogin ==
    /\ m_state = "ACTIVE" /\ heard = "onActive"
    /\ last.op = "proxy.onLoginSuccess" /\ emits = <<>>

\* the nested strategy paused while ACTIVE and the listener heard nothing
C30_WitnessNestedPause ==
    /\ m_state = "ACTIVE" /\ heard = "onActive"
    /\ last.op = "strategy.onPause" /\ emits = <<>>

\* the states in which the single-shot timer is armed
TimerStates == {"IDLE", "ACTIVE"}

\* C31: the assertion of setState (m_state # state and state # NEW) never
\* fails: the only fault a handler can raise is the unchecked m_proxy of
\* onClose; the timer is pending only in IDLE and ACTIVE, and exactly there as
\* long as no stop() intervenes, so onTimer never fires in CONNECT or WAIT and
\* no handler asks for the state the strategy is already in
C31_SetStateAssertionHolds ==
    [][/\ (fault' /\ ~fault) => last'.op = "proxy.onClose"
       /\ m_timer'.on => m_state' \in TimerStates
       /\ last'.op = "onTimer" => (m_state \in TimerStates /\ m_state' # m_state)
       /\ (last'.op # "stop" /\ (m_timer.on <=> m_state \in TimerStates)) =>
             (m_timer'.on <=> m_state' \in TimerStates)]_vars

\* the timer fired in ACTIVE and the strategy went to WAIT with the timer off
C31_Witness ==
    /\ last.op = "onTimer" /\ m_state = "WAIT"
    /\ ~m_timer.on /\ ~fault

\* the timer fired in IDLE and the strategy went to CONNECT with the timer off
C31_WitnessConnect ==
    /\ last.op = "onTimer" /\ m_state = "CONNECT"
    /\ ~m_timer.on /\ ~fault

\* after a stop() the strategy is ACTIVE with no timer pending
C31_WitnessStopped ==
    /\ last.op = "stop" /\ m_state = "ACTIVE" /\ ~m_timer.on

\* ---- Verthash properties (continued) -------------------------------------
\* the regions that are allocated and not freed
Live == {r \in Regions : heap[r].st \in {"filling", "full"}}

\* C32: over any sequence of init(p) calls (succeeding or failing, same or
\* different paths) and release() calls, every loaded region is freed exactly
\* once, never twice and never leaked by a later load; the initialized flag is
\* true exactly when a region is held (isValid() holds); release() on an empty
\* manager does nothing
C32_RegionsFreedOnce ==
    [][/\ \A t \in Threads :
            /\ (Leaves(t, "i_free") \/ Leaves(t, "r_free")) =>
                  /\ m_info.data # 0 /\ heap[m_info.data].st = "full"
                  /\ heap'[m_info.data].st = "freed"
                  /\ Live' = {}
            /\ (Leaves(t, "r_enter") /\ ~m_initialized) =>
                  /\ th'[t].pc = "exit"
                  /\ UNCHANGED <<m_info, m_initialized, heap, loads>>
            /\ (Leaves(t, "exit") /\ th[t].op = "release") =>
                  /\ m_info' = ZeroInfo /\ ~m_initialized' /\ Live' = {}
       /\ \A r \in Regions : heap[r].st = "freed" => heap'[r].st = "freed"
       /\ Live' \subseteq {m_info'.data}
       /\ m_mutex' = 0 => /\ m_initialized' <=> isValid'
                          /\ m_initialized' <=> Live' # {}
                          /\ m_initialized' => heap'[m_info'.data].st = "full"]_vars

\* a second file replaced the first: the first region is freed, the second is held
C32_Witness ==
    /\ m_mutex = 0 /\ m_initialized /\ isValid
    /\ heap[1].st = "freed" /\ heap[2].st = "full" /\ m_info.data = 2

\* release() returned on a manager that never held a region
C32_WitnessEmptyRelease ==
    /\ loads = 0 /\ m_mutex = 0 /\ ~m_initialized
    /\ \E t \in Threads : th[t].op = "release" /\ th[t].pc = "done"

\* a load of another file failed after the first region was freed
C32_WitnessFailedReload ==
    /\ m_mutex = 0 /\ ~m_initialized /\ m_info = ZeroInfo
    /\ heap[1].st = "freed" /\ loads = 2 /\ heap[2].st = "unused"

\* a region was loaded and then released
C32_WitnessReleased ==
    /\ m_mutex = 0 /\ ~m_initialized /\ m_info = ZeroInfo
    /\ heap[1].st = "freed" /\ loads = 1
    /\ \E t \in Threads : th[t].op = "release" /\ th[t].pc = "done"
====
